---- MODULE Spec2Model ----
(***************************************************************************)
(* rusterize: the Python entry points of the package and the call they    *)
(* make into the native engine (_rusterize).                               *)
(*                                                                         *)
(* A behaviour is one call: the caller assembles keyword arguments         *)
(* (Supply), the test-suite style patches of the optional-dependency       *)
(* probes may be applied (Patch), and then one entry point runs from its   *)
(* first line to its return or raise (rusterize, core_rusterize).          *)
(*                                                                         *)
(* The engine itself is native code that is not part of the Python         *)
(* sources; its components are described from the design document, each    *)
(* with a specification of its own: the reduction kernel and the output    *)
(* encoder (KernelSpec, and OrderSpec for the order of the records), the   *)
(* band dispatcher (DispatcherSpec), the grid resolver (ResolverSpec) and  *)
(* the polygon fill of the scan converter (ScanSpec).                      *)
(***************************************************************************)
EXTENDS Integers, Sequences, FiniteSets, TLC

VARIABLES
    kwargs,       \* the arguments of the call, by parameter name
    supplied,     \* the parameter names the caller has set explicitly
    missing,      \* optional dependencies reported as not installed
    pc,           \* "setup" while the call is assembled, "done" after it
    entry,        \* the entry point that ran: "none", "rusterize", "core"
    outcome,      \* what the call did: the exception raised, or the return
    engineCalls,  \* the argument lists handed to _rusterize, in order
    kpc,          \* reduction kernel: "idle", "fold" while records arrive, "done"
    opts,         \* reduction kernel: fun, dtype, background, burn of the run
    band,         \* reduction kernel: the reduction state of every pixel
    hits,         \* reduction kernel: how many emissions each pixel received
    nfolded,      \* reduction kernel: how many records were folded
    output,       \* output encoder: the encoded band
    dpc,          \* band dispatcher: "idle", "run" while workers dispatch, "done"
    records,      \* band dispatcher: the group key of every input record
    owner,        \* band dispatcher: the worker each record was given to
    dispatched,   \* band dispatcher: the records already dispatched
    bandTable,    \* band dispatcher: the group keys in band order
    gpc,          \* grid resolver: "idle", "given", "resolved"
    gridSpec,     \* grid resolver: the grid spec handed to the engine
    dataBounds,   \* grid resolver: the bounds of the input geometries
    grid,         \* grid resolver: the resolved grid
    located,      \* grid resolver: the input vertices mapped to pixels so far
    opc,          \* record order: "idle", "given", then "folded", "compared"
    batch,        \* record order: fun, dtype and the records of one band
    inOrder,      \* record order: the output for the records in input order
    reordered,    \* record order: a permutation and the output it gives
    spc,          \* scan converter: "idle", "scan" while rows are filled, "done"
    polygon,      \* scan converter: the rings of the record and the grid rows
    row,          \* scan converter: the next scan row
    intersections,\* scan converter: the crossings of each row scanned so far
    filled        \* scan converter: the column spans emitted for each row

callVars == <<kwargs, supplied, missing, pc, entry, outcome, engineCalls>>

kernelVars == <<kpc, opts, band, hits, nfolded, output>>

dispatcherVars == <<dpc, records, owner, dispatched, bandTable>>

resolverVars == <<gpc, gridSpec, dataBounds, grid, located>>

orderVars == <<opc, batch, inOrder, reordered>>

scanVars == <<spc, polygon, row, intersections, filled>>

engineVars == <<kernelVars, dispatcherVars, resolverVars, orderVars, scanVars>>

vars == <<callVars, engineVars>>

(***************************************************************************)
(* Python values.  Every value is a record of the same shape so that any   *)
(* two of them can be compared: t is the Python type, n the numeric value  *)
(* (ints, bools, integral floats), s the text (strings, object names,      *)
(* "inf"/"nan" for the non-finite floats), items the elements of a tuple   *)
(* or list.                                                                *)
(***************************************************************************)
Val(t, n, s, items) == [t |-> t, n |-> n, s |-> s, items |-> items]

PyNone == Val("NoneType", 0, "", <<>>)

PyInt(n) == Val("int", n, "", <<>>)

PyFloat(n) == Val("float", n, "", <<>>)

PyInf == Val("float", 0, "inf", <<>>)

PyNaN == Val("float", 0, "nan", <<>>)

PyStr(s) == Val("str", 0, s, <<>>)

PyBool(b) == Val("bool", IF b THEN 1 ELSE 0, "", <<>>)

PyTuple(items) == Val("tuple", 0, "", items)

PyList(items) == Val("list", 0, "", items)

PyObj(cls, name) == Val(cls, 0, name, <<>>)

\* bool(v): the truth value Python gives v in `if v`, `not v`, `any(...)`
Truthy(v) ==
    CASE v.t = "NoneType" -> FALSE
      [] v.t \in {"int", "bool"} -> v.n # 0
      [] v.t = "float" -> (v.s # "" \/ v.n # 0)
      [] v.t = "str" -> v.s # ""
      [] v.t \in {"tuple", "list"} -> Len(v.items) > 0
      [] OTHER -> TRUE

\* isinstance(v, (int, float)); bool is a subclass of int
IsNumber(v) == v.t \in {"int", "float", "bool"}

\* isinstance(v, int)
IsInt(v) == v.t \in {"int", "bool"}

\* v <= 0: "True", "False", or "TypeError" when v does not order against int
LeZero(v) ==
    IF ~IsNumber(v) THEN "TypeError"
    ELSE IF v.s = "nan" THEN "False"
    ELSE IF v.s = "inf" THEN "False"
    ELSE IF v.n <= 0 THEN "True" ELSE "False"

\* v == 0 (never raises)
EqZero(v) == IsNumber(v) /\ v.s = "" /\ v.n = 0

\* any(x <= 0 for x in items), left to right, stopping at the first True
RECURSIVE AnyLeZero(_)
AnyLeZero(items) ==
    IF items = <<>> THEN "False"
    ELSE LET h == LeZero(Head(items))
         IN IF h = "False" THEN AnyLeZero(Tail(items)) ELSE h

(***************************************************************************)
(* The inputs of the calls explored: the fixtures of the test suite and    *)
(* the values its parametrised cases pass, a few more of each kind.        *)
(***************************************************************************)
\* GeoDataFrame with columns value, grp and the geometry column "geometry"
GDF == PyObj("GeoDataFrame", "GDF")

\* the same frame after rename_geometry("geom")
GDF_GEOM == PyObj("GeoDataFrame", "GDF_GEOM")

\* a GeoDataFrame with no rows
GDF_EMPTY == PyObj("GeoDataFrame", "GDF_EMPTY")

\* polars_st frame with columns value, grp, geometry
PLDF == PyObj("polars.DataFrame", "PLDF")

\* list of WKT strings
GEOMS == PyList(<<PyStr("P1"), PyStr("P2")>>)

\* a list with no geometry in it
GEOMS_EMPTY == PyList(<<>>)

DataValues ==
    {GDF, GDF_GEOM, GDF_EMPTY, PLDF, GEOMS, GEOMS_EMPTY, PyStr("not_a_dataframe")}

\* data.columns
Columns(d) ==
    CASE d.s = "GDF" -> {"value", "grp", "geometry"}
      [] d.s = "GDF_GEOM" -> {"value", "grp", "geom"}
      [] d.s = "PLDF" -> {"value", "grp", "geometry"}
      [] OTHER -> {}

\* data.empty / data.is_empty()
IsEmptyFrame(d) == d.s = "GDF_EMPTY"

\* data.total_bounds: (xmin, ymin, xmax, ymax) of the fixture geometries
TotalBounds(d) == PyTuple(<<PyFloat(0), PyFloat(0), PyFloat(4), PyFloat(4)>>)

\* a rusterize(..., encoding="xarray") result used as template: one band,
\* 2 rows by 3 columns of 1 x 1 pixels over (0, 0, 3, 2)
TEMPLATE == PyObj("xarray.DataArray", "TEMPLATE")

\* xr.DataArray(): a scalar array, no spatial dimensions
BARE_ARRAY == PyObj("xarray.DataArray", "BARE")

\* a DataArray in a process that never imported rioxarray: no rio accessor
NORIO_ARRAY == PyObj("xarray.DataArray", "NORIO")

IsXarrayObject(v) == v.t \in {"xarray.DataArray", "xarray.Dataset"}

HasRio(v) == v.s # "NORIO"

HasSpatialDims(v) == v.s = "TEMPLATE"

\* (affine.a, abs(affine.e)) of the template
TemplateRes(v) == PyTuple(<<PyFloat(1), PyFloat(1)>>)

\* like.squeeze().shape
TemplateShape(v) == PyTuple(<<PyInt(2), PyInt(3)>>)

\* like.rio.bounds()
TemplateBounds(v) == PyTuple(<<PyFloat(0), PyFloat(0), PyFloat(3), PyFloat(2)>>)

ParamNames ==
    {"like", "res", "out_shape", "extent", "field", "by", "burn", "fun",
     "background", "encoding", "all_touched", "tap", "dtype"}

\* the values a caller may pass for each parameter instead of the baseline
Alt(p) ==
    CASE p = "like" -> {TEMPLATE, BARE_ARRAY, NORIO_ARRAY, PyStr("not_an_xarray")}
      [] p = "res" ->
            {PyNone, PyTuple(<<>>), PyTuple(<<PyInt(-1), PyInt(1)>>),
             PyTuple(<<PyInt(1)>>), PyList(<<PyStr("a"), PyInt(1)>>), PyStr("1x1")}
      [] p = "out_shape" ->
            {PyTuple(<<>>), PyTuple(<<PyInt(2), PyInt(3)>>),
             PyTuple(<<PyInt(-1), PyInt(1)>>), PyTuple(<<PyFloat(2), PyInt(3)>>),
             PyStr("100x100")}
      [] p = "extent" ->
            {PyTuple(<<>>), PyTuple(<<PyInt(0), PyInt(0), PyInt(4), PyInt(4)>>),
             PyTuple(<<PyInt(0), PyInt(0), PyInt(0), PyInt(0)>>),
             PyTuple(<<PyInt(1), PyInt(2), PyInt(3)>>),
             PyList(<<PyInt(0), PyInt(0), PyInt(1), PyStr("a")>>),
             PyStr("0,0,10,10")}
      [] p = "field" ->
            {PyStr(""), PyStr("value"), PyStr("missing"), PyStr("geometry"), PyInt(123)}
      [] p = "by" -> {PyStr("grp"), PyStr("missing"), PyInt(123)}
      [] p = "burn" -> {PyInt(0), PyInt(5), PyStr("hot")}
      [] p = "fun" -> {PyStr("sum"), PyStr("bogus"), PyInt(1)}
      [] p = "background" -> {PyInt(-1), PyStr("black")}
      [] p = "encoding" -> {PyStr("numpy"), PyStr("sparse"), PyStr("bogus"), PyInt(1)}
      [] p = "all_touched" -> {PyBool(TRUE), PyStr("yes")}
      [] p = "tap" -> {PyBool(TRUE), PyStr("yes")}
      [] p = "dtype" -> {PyStr("uint8"), PyStr("bogus"), PyInt(64)}

\* the call every test starts from: rusterize(data, res=(1, 1)), every other
\* parameter at the default of the signature
Baseline(d) ==
    [data |-> d, like |-> PyNone, res |-> PyTuple(<<PyInt(1), PyInt(1)>>),
     out_shape |-> PyNone, extent |-> PyNone, field |-> PyNone, by |-> PyNone,
     burn |-> PyNone, fun |-> PyStr("last"), background |-> PyNaN,
     encoding |-> PyStr("xarray"), all_touched |-> PyBool(FALSE),
     tap |-> PyBool(FALSE), dtype |-> PyStr("float64")]

Dependencies == {"geopandas", "polars", "polars_st", "xarray", "rioxarray"}

\* how many arguments and patches one explored call may combine
MaxSetup == 3

(***************************************************************************)
(* _dependencies.py: the probes of the optional dependencies.              *)
(***************************************************************************)
\* line 140 written as `return XARRAY_AVAILABLE`, rioxarray forgotten
xarray_available_without_rioxarray(miss) == "xarray" \notin miss

\* lines 139-140
xarray_available(miss) == "xarray" \notin miss /\ "rioxarray" \notin miss

polars_available(miss) == "polars" \notin miss

\* _might_be(type(obj), name): the class hierarchy names the module
might_be(v, name) ==
    CASE name = "geopandas" -> v.t = "GeoDataFrame"
      [] name = "polars" -> v.t = "polars.DataFrame"
      [] OTHER -> FALSE

check_for_geopandas(v, miss) == "geopandas" \notin miss /\ might_be(v, "geopandas")

check_for_polars_st(v, miss) == "polars_st" \notin miss /\ might_be(v, "polars")

(***************************************************************************)
(* What a call does: the exception it raises (exc, msg) or its return      *)
(* (exc = "none"), and the engine invocations it made.                     *)
(***************************************************************************)
Raise(exc, msg) == [exc |-> exc, msg |-> msg, calls |-> <<>>]

NoOutcome == [exc |-> "none", msg |-> "not called"]

Ok(x) == [exc |-> "", msg |-> x]

(***************************************************************************)
(* rusterize (python/rusterize/__init__.py), top to bottom.                *)
(***************************************************************************)
\* lines 95-107: the kind of `data`, Ok("raw" | "geopandas" | "polars"), or
\* the exception raised while deciding it
data_type(data, miss) ==
    IF data.t \in {"list", "ndarray"} THEN Ok("raw")
    ELSE IF check_for_geopandas(data, miss) /\ data.t = "GeoDataFrame"
    THEN IF IsEmptyFrame(data)
         THEN [exc |-> "ValueError", msg |-> "GeoDataFrame is empty."]
         ELSE Ok("geopandas")
    ELSE IF check_for_polars_st(data, miss)
    THEN IF ~polars_available(miss)
         THEN [exc |-> "ModuleNotFoundError",
               msg |-> "pl.DataFrame requires polars module to be installed"]
         ELSE IF data.t = "polars.DataFrame"
         THEN IF IsEmptyFrame(data)
              THEN [exc |-> "ValueError", msg |-> "GeoDataFrame is empty."]
              ELSE Ok("polars")
         ELSE [exc |-> "TypeError", msg |-> "data must be either"]
    ELSE [exc |-> "TypeError", msg |-> "data must be either"]

IsSeqOrNone(v) == v.t \in {"tuple", "list", "NoneType"}

IsStrOrNone(v) == v.t \in {"str", "NoneType"}

IsNumberOrNone(v) == v.t \in {"int", "float", "bool", "NoneType"}

\* lines 109-145 with the check of tap (lines 139-140) left out
type_checks_without_tap(a) ==
    IF ~IsSeqOrNone(a.res) THEN "resolution must be a tuple or list of (xres, yres)."
    ELSE IF ~IsSeqOrNone(a.out_shape)
    THEN "out_shape must be a tuple or list of (nrows, ncols)."
    ELSE IF ~IsSeqOrNone(a.extent)
    THEN "extent must be a tuple or list of (xmin, ymin, xmax, ymax)."
    ELSE IF ~IsStrOrNone(a.field) THEN "field must be a string column name."
    ELSE IF ~IsStrOrNone(a.by) THEN "by must be a string column name."
    ELSE IF ~IsNumberOrNone(a.burn) THEN "burn must be an integer or float."
    ELSE IF a.fun.t # "str" THEN "pixel_fn must be one of"
    ELSE IF ~IsNumberOrNone(a.background)
    THEN "background must be integer, float, or None."
    ELSE IF a.encoding.t # "str" THEN "encoding must be one of xarray"
    ELSE IF a.all_touched.t # "bool" THEN "all_touched must be a boolean."
    ELSE IF a.dtype.t # "str" THEN "dtype must be a one of"
    ELSE ""

\* lines 109-145: the message of the first isinstance check that fails, or ""
type_checks(a) ==
    IF ~IsSeqOrNone(a.res) THEN "resolution must be a tuple or list of (xres, yres)."
    ELSE IF ~IsSeqOrNone(a.out_shape)
    THEN "out_shape must be a tuple or list of (nrows, ncols)."
    ELSE IF ~IsSeqOrNone(a.extent)
    THEN "extent must be a tuple or list of (xmin, ymin, xmax, ymax)."
    ELSE IF ~IsStrOrNone(a.field) THEN "field must be a string column name."
    ELSE IF ~IsStrOrNone(a.by) THEN "by must be a string column name."
    ELSE IF ~IsNumberOrNone(a.burn) THEN "burn must be an integer or float."
    ELSE IF a.fun.t # "str" THEN "pixel_fn must be one of"
    ELSE IF ~IsNumberOrNone(a.background)
    THEN "background must be integer, float, or None."
    ELSE IF a.encoding.t # "str" THEN "encoding must be one of xarray"
    ELSE IF a.all_touched.t # "bool" THEN "all_touched must be a boolean."
    ELSE IF a.tap.t # "bool" THEN "tap must be a boolean."
    ELSE IF a.dtype.t # "str" THEN "dtype must be a one of"
    ELSE ""

\* line 148: if field and burn
field_and_burn(field, burn) == Truthy(field) /\ Truthy(burn)

Encodings == {"xarray", "numpy", "sparse"}

\* line 151: encoding not in ["xarray", "numpy", "sparse"]
unknown_encoding(encoding) == encoding.s \notin Encodings

\* the check of line 168 written as any((out_shape, extent)), res forgotten
any_grid_argument_without_res(res, out_shape, extent) ==
    Truthy(out_shape) \/ Truthy(extent)

\* line 168: any((res, out_shape, extent))
any_grid_argument(res, out_shape, extent) ==
    Truthy(res) \/ Truthy(out_shape) \/ Truthy(extent)

\* the check of line 182 written as `if not res`, the other two forgotten
no_grid_argument_res_only(res, out_shape, extent) == ~Truthy(res)

\* line 182: not res and not out_shape and not extent
no_grid_argument(res, out_shape, extent) ==
    ~Truthy(res) /\ ~Truthy(out_shape) /\ ~Truthy(extent)

\* lines 185-186: if extent: if not res and not out_shape
extent_alone(res, out_shape, extent) ==
    Truthy(extent) /\ ~Truthy(res) /\ ~Truthy(out_shape)

\* line 189: len(extent) != 4 or all(e == 0 for e in extent)
extent_malformed(extent) ==
    \/ Len(extent.items) # 4
    \/ \A i \in 1..Len(extent.items) : EqZero(extent.items[i])

\* line 196: len(res) != 2 or any(r <= 0 ...) or any(not isinstance(r, (int, float)) ...)
\* "ok", "ValueError", or "TypeError" when an element does not order against 0
res_check(res) ==
    IF Len(res.items) # 2 THEN "ValueError"
    ELSE LET z == AnyLeZero(res.items)
         IN IF z = "TypeError" THEN "TypeError"
            ELSE IF z = "True" THEN "ValueError"
            ELSE IF \E i \in 1..Len(res.items) : ~IsNumber(res.items[i])
            THEN "ValueError"
            ELSE "ok"

\* line 202: the same for out_shape, with isinstance(s, int)
shape_check(out_shape) ==
    IF Len(out_shape.items) # 2 THEN "ValueError"
    ELSE LET z == AnyLeZero(out_shape.items)
         IN IF z = "TypeError" THEN "TypeError"
            ELSE IF z = "True" THEN "ValueError"
            ELSE IF \E i \in 1..Len(out_shape.items) : ~IsInt(out_shape.items[i])
            THEN "ValueError"
            ELSE "ok"

\* line 208: list(set([col for col in (field, by) if col and col != "geometry"]))
cols_of(field, by) ==
    {c.s : c \in {x \in {field, by} : Truthy(x) /\ x.s # "geometry"}}

\* the names of the function body that a branch may leave unassigned
Unbound == PyObj("unbound", "")

NoFrame == [present |-> FALSE, columns |-> {}]

Frame(columns) == [present |-> TRUE, columns |-> columns]

\* the local variables at the end of the if/else of lines 164-252; `bound`
\* holds the names among cols, df, epsg, geometries that were assigned
Locals(res, shape, bounds, wue, df, epsg, geometries, bound) ==
    [exc |-> "", msg |-> "", res |-> res, shape |-> shape, bounds |-> bounds,
     with_user_extent |-> wue, df |-> df, epsg |-> epsg,
     geometries |-> geometries, bound |-> bound]

Failed(exc, msg) ==
    [exc |-> exc, msg |-> msg, res |-> PyNone, shape |-> PyNone, bounds |-> PyNone,
     with_user_extent |-> FALSE, df |-> NoFrame, epsg |-> Unbound,
     geometries |-> Unbound, bound |-> {}]

\* lines 159-162
DefaultBounds == PyTuple(<<PyInf, PyInf, PyInf, PyInf>>)

DefaultRes == PyTuple(<<PyInt(0), PyInt(0)>>)

DefaultShape == PyTuple(<<PyInt(0), PyInt(0)>>)

\* lines 164-180: the branch taken when like is not None
like_branch(a, miss) ==
    IF ~(xarray_available(miss) /\ IsXarrayObject(a.like))
    THEN Failed("TypeError", "like must be a xarray.DataArray or xarray.Dataset")
    ELSE IF any_grid_argument(a.res, a.out_shape, a.extent)
    THEN Failed("ValueError", "like is mutually exclusive with res, out_shape, and extent.")
    ELSE IF ~HasRio(a.like)
    THEN Failed("AttributeError", "The like object must have a rio accessor.")
    ELSE IF ~HasSpatialDims(a.like)
    THEN Failed("AttributeError", "No spatial dimension found for like object")
    ELSE Locals(TemplateRes(a.like), TemplateShape(a.like), TemplateBounds(a.like),
                TRUE, NoFrame, Unbound, Unbound, {})

\* lines 213-228 with the lookup data[cols] tolerating unknown names: the
\* columns that exist are kept, the others dropped
geopandas_branch_tolerant(a, miss, res, shape, bounds, wue) ==
    LET cols == cols_of(a.field, a.by) \cap Columns(a.data)
    IN IF ~polars_available(miss)
       THEN Failed("ModuleNotFoundError",
                   "polars must be installed when data is geopandas.GeoDataFrame.")
       ELSE Locals(res, shape, IF wue THEN bounds ELSE TotalBounds(a.data), wue,
                   IF cols # {} THEN Frame(cols) ELSE NoFrame,
                   PyNone, PyObj("GeoSeries", a.data.s),
                   {"cols", "df", "epsg", "geometries"})

\* lines 213-228: data is a GeoDataFrame
geopandas_branch(a, miss, res, shape, bounds, wue) ==
    LET cols == cols_of(a.field, a.by)
    IN IF ~polars_available(miss)
       THEN Failed("ModuleNotFoundError",
                   "polars must be installed when data is geopandas.GeoDataFrame.")
       ELSE IF cols # {} /\ ~(cols \subseteq Columns(a.data))
       THEN Failed("KeyError", "Column not found in GeoDataFrame.")
       ELSE Locals(res, shape, IF wue THEN bounds ELSE TotalBounds(a.data), wue,
                   IF cols # {} THEN Frame(cols) ELSE NoFrame,
                   PyNone, PyObj("GeoSeries", a.data.s),
                   {"cols", "df", "epsg", "geometries"})

\* lines 230-248: data is a polars DataFrame
polars_branch(a, res, shape, bounds, wue) ==
    LET cols == cols_of(a.field, a.by)
    IN IF ~wue /\ "geometry" \notin Columns(a.data)
       THEN Failed("ValueError", "If polars.DataFrame, a geometry column is expected.")
       ELSE IF "geometry" \notin Columns(a.data)
       THEN Failed("ColumnNotFoundError", "geometry")
       ELSE IF cols # {} /\ ~(cols \subseteq Columns(a.data))
       THEN Failed("KeyError", "Column not found in polars DataFrame.")
       ELSE Locals(res, shape, IF wue THEN bounds ELSE TotalBounds(a.data), wue,
                   IF cols # {} THEN Frame(cols \cup {"geometry"}) ELSE NoFrame,
                   PyNone, PyObj("polars.Series", a.data.s),
                   {"cols", "df", "epsg", "geometries"})

\* lines 181-252: the branch taken when like is None
grid_branch(a, dt, miss) ==
    IF no_grid_argument(a.res, a.out_shape, a.extent)
    THEN Failed("ValueError", "One of res, out_shape, or extent must be provided.")
    ELSE IF extent_alone(a.res, a.out_shape, a.extent)
    THEN Failed("ValueError", "Must also specify res or out_shape with extent.")
    ELSE IF Truthy(a.extent) /\ extent_malformed(a.extent)
    THEN Failed("ValueError", "extent must be a tuple or list of (xmin, ymin, xmax, ymax).")
    ELSE IF Truthy(a.res) /\ res_check(a.res) = "ValueError"
    THEN Failed("ValueError", "res must be 2 positive numbers.")
    ELSE IF Truthy(a.res) /\ res_check(a.res) = "TypeError"
    THEN Failed("TypeError", "<= not supported between instances")
    ELSE IF Truthy(a.out_shape) /\ shape_check(a.out_shape) = "ValueError"
    THEN Failed("ValueError", "out_shape must be 2 positive integers.")
    ELSE IF Truthy(a.out_shape) /\ shape_check(a.out_shape) = "TypeError"
    THEN Failed("TypeError", "<= not supported between instances")
    ELSE LET wue == Truthy(a.extent)
             bounds == IF wue THEN a.extent ELSE DefaultBounds
             res == IF Truthy(a.res) THEN a.res ELSE DefaultRes
             shape == IF Truthy(a.out_shape) THEN a.out_shape ELSE DefaultShape
         IN IF dt = "geopandas" THEN geopandas_branch(a, miss, res, shape, bounds, wue)
            ELSE IF dt = "polars" THEN polars_branch(a, res, shape, bounds, wue)
            ELSE Locals(res, shape, bounds, wue, NoFrame, PyNone, a.data,
                        {"cols", "df", "epsg", "geometries"})

\* lines 255-267 with the two elements of _shape exchanged
raw_raster_info_transposed(L, tap) ==
    [nrows |-> L.shape.items[2], ncols |-> L.shape.items[1],
     xmin |-> L.bounds.items[1], ymin |-> L.bounds.items[2],
     xmax |-> L.bounds.items[3], ymax |-> L.bounds.items[4],
     xres |-> L.res.items[1], yres |-> L.res.items[2],
     with_user_extent |-> L.with_user_extent, tap |-> tap, epsg |-> L.epsg]

\* lines 255-267
raw_raster_info(L, tap) ==
    [nrows |-> L.shape.items[1], ncols |-> L.shape.items[2],
     xmin |-> L.bounds.items[1], ymin |-> L.bounds.items[2],
     xmax |-> L.bounds.items[3], ymax |-> L.bounds.items[4],
     xres |-> L.res.items[1], yres |-> L.res.items[2],
     with_user_extent |-> L.with_user_extent, tap |-> tap, epsg |-> L.epsg]

\* docstring, line 66
Funs == {"sum", "first", "last", "min", "max", "count", "any"}

\* line 144
DTypes ==
    {"uint8", "uint16", "uint32", "uint64", "int8", "int16", "int32", "int64",
     "float32", "float64"}

\* the geometry source handed to the engine holds no geometry
NoGeometries(g) == g.t = "list" /\ g.items = <<>>

\* the native engine behind `from .rusterize import _rusterize`: its checks of
\* the reduction and dtype names (spec section 7, InvalidArgument) and of
\* the input (spec sections 4.1 and 7, EmptyInput)
engine_rusterize(args) ==
    IF args.fun.s \notin Funs THEN [exc |-> "ValueError", msg |-> "unknown reduction name"]
    ELSE IF args.dtype.s \notin DTypes THEN [exc |-> "ValueError", msg |-> "unknown dtype name"]
    ELSE IF NoGeometries(args.geometries) /\ ~args.info.with_user_extent
    THEN [exc |-> "ValueError", msg |-> "no geometries and no user extent"]
    ELSE [exc |-> "none", msg |-> "returned"]

\* lines 254-281: build the grid spec and hand everything to the engine
call_engine(a, L) ==
    IF "epsg" \notin L.bound
    THEN Raise("UnboundLocalError", "epsg")
    ELSE IF "geometries" \notin L.bound
    THEN Raise("UnboundLocalError", "geometries")
    ELSE IF "df" \notin L.bound
    THEN Raise("UnboundLocalError", "df")
    ELSE LET args == [geometries |-> L.geometries,
                      info |-> raw_raster_info(L, a.tap),
                      fun |-> a.fun, df |-> L.df, field |-> a.field, by |-> a.by,
                      burn |-> a.burn, background |-> a.background,
                      all_touched |-> a.all_touched, encoding |-> a.encoding,
                      dtype |-> a.dtype]
             r == engine_rusterize(args)
         IN [exc |-> r.exc, msg |-> r.msg, calls |-> <<args>>]

\* lines 26-281: the whole function
rusterize_result(a, miss) ==
    LET dt == data_type(a.data, miss)
    IN IF dt.exc # "" THEN Raise(dt.exc, dt.msg)
       ELSE IF type_checks(a) # "" THEN Raise("TypeError", type_checks(a))
       ELSE IF field_and_burn(a.field, a.burn)
       THEN Raise("ValueError", "Only one of field or burn can be specified.")
       ELSE IF unknown_encoding(a.encoding)
       THEN Raise("ValueError", "encoding must be one of xarray, numpy, or sparse.")
       ELSE IF a.encoding.s = "xarray" /\ ~xarray_available(miss)
       THEN Raise("ModuleNotFoundError", "xarray and rioxarray must be installed")
       ELSE LET L == IF a.like # PyNone THEN like_branch(a, miss)
                     ELSE grid_branch(a, dt.msg, miss)
            IN IF L.exc # "" THEN Raise(L.exc, L.msg) ELSE call_engine(a, L)

(***************************************************************************)
(* rusterize (python/rusterize/core.py): the earlier entry point, still    *)
(* importable as rusterize.core.rusterize.                                 *)
(***************************************************************************)
CoreParams == {"res", "out_shape", "extent", "field", "by", "fun", "background"}

IsTupleOrNone(v) == v.t \in {"tuple", "NoneType"}

\* lines 44-59: the message of the first isinstance check that fails, or ""
core_type_checks(a) ==
    IF a.data.t # "GeoDataFrame" THEN "Must pass a valid geopandas dataframe."
    ELSE IF ~IsTupleOrNone(a.res) THEN "Must pass a valid resolution tuple (x, y)."
    ELSE IF ~IsTupleOrNone(a.out_shape)
    THEN "Must pass a valid output shape tuple (nrows, ncols)."
    ELSE IF ~IsTupleOrNone(a.extent)
    THEN "Must pass a valid extent tuple (xmin, ymin, xmax, ymax)."
    ELSE IF ~IsStrOrNone(a.field) THEN "Must pass a valid string to field."
    ELSE IF ~IsStrOrNone(a.by) THEN "Must pass a valid string to by."
    ELSE IF a.fun.t # "str" THEN "Must pass a valid string to pixel_fn."
    ELSE IF ~IsNumberOrNone(a.background) THEN "Must pass a valid background type."
    ELSE ""

\* lines 72-73: if by and not field
by_without_field(field, by) == Truthy(by) /\ ~Truthy(field)

\* line 94: list(set([col for col in (field, by) if col]))
core_cols_of(field, by) == {c.s : c \in {x \in {field, by} : Truthy(x)}}

\* lines 81-91
raster_info(res, shape, bounds, has_extent) ==
    [xmin |-> bounds.items[1], ymin |-> bounds.items[2],
     xmax |-> bounds.items[3], ymax |-> bounds.items[4],
     xres |-> res.items[1], yres |-> res.items[2],
     nrows |-> shape.items[1], ncols |-> shape.items[2],
     has_extent |-> has_extent]

\* the engine as core.py calls it, with seven arguments: its check of the
\* reduction name (spec section 7, InvalidArgument)
legacy_engine_rusterize(args) ==
    IF args.fun.s \notin Funs THEN [exc |-> "ValueError", msg |-> "unknown reduction name"]
    ELSE [exc |-> "none", msg |-> "returned"]

\* lines 13-107: the whole function
core_rusterize_result(a, given, miss) ==
    IF miss \cap {"polars", "rioxarray", "xarray"} # {}
    THEN Raise("ModuleNotFoundError", "import of rusterize.core failed")
    ELSE IF ~(given \subseteq CoreParams)
    THEN Raise("TypeError", "rusterize() got an unexpected keyword argument")
    ELSE IF core_type_checks(a) # "" THEN Raise("TypeError", core_type_checks(a))
    ELSE IF no_grid_argument(a.res, a.out_shape, a.extent)
    THEN Raise("ValueError", "One of res, out_shape, or extent must be provided.")
    ELSE IF extent_alone(a.res, a.out_shape, a.extent)
    THEN Raise("ValueError", "Must also specify res or out_shape with extent.")
    ELSE IF Truthy(a.res) /\ res_check(a.res) = "ValueError"
    THEN Raise("ValueError", "Resolution must be 2 positive numbers.")
    ELSE IF Truthy(a.res) /\ res_check(a.res) = "TypeError"
    THEN Raise("TypeError", "<= not supported between instances")
    ELSE IF Truthy(a.out_shape) /\ shape_check(a.out_shape) = "ValueError"
    THEN Raise("ValueError", "Output shape must be 2 positive integers.")
    ELSE IF Truthy(a.out_shape) /\ shape_check(a.out_shape) = "TypeError"
    THEN Raise("TypeError", "<= not supported between instances")
    ELSE IF Truthy(a.extent) /\ Len(a.extent.items) # 4
    THEN Raise("ValueError", "Extent must be 4 numbers (xmin, ymin, xmax, ymax).")
    ELSE IF by_without_field(a.field, a.by)
    THEN Raise("ValueError", "If by is specified, field must also be specified.")
    ELSE LET res == IF Truthy(a.res) THEN a.res ELSE DefaultRes
             shape == IF Truthy(a.out_shape) THEN a.out_shape ELSE DefaultShape
             has_extent == Truthy(a.extent)
             bounds == IF has_extent THEN a.extent ELSE TotalBounds(a.data)
             cols == core_cols_of(a.field, a.by)
         IN IF cols # {} /\ ~(cols \subseteq Columns(a.data))
            THEN Raise("KeyError", "not in index")
            ELSE LET args == [geometries |-> PyObj("GeoSeries", a.data.s),
                              info |-> raster_info(res, shape, bounds, has_extent),
                              fun |-> a.fun,
                              df |-> IF cols # {} THEN Frame(cols) ELSE NoFrame,
                              field |-> a.field, by |-> a.by,
                              background |-> a.background]
                     r == legacy_engine_rusterize(args)
                 IN [exc |-> r.exc, msg |-> r.msg, calls |-> <<args>>]

(***************************************************************************)
(* The state machine.                                                      *)
(***************************************************************************)
\* no engine component is running
KernelIdle ==
    /\ kpc = "idle"
    /\ opts = <<>>
    /\ band = <<>>
    /\ hits = <<>>
    /\ nfolded = 0
    /\ output = <<>>

DispatcherIdle ==
    /\ dpc = "idle"
    /\ records = <<>>
    /\ owner = <<>>
    /\ dispatched = {}
    /\ bandTable = <<>>

ResolverIdle ==
    /\ gpc = "idle"
    /\ gridSpec = <<>>
    /\ dataBounds = <<>>
    /\ grid = <<>>
    /\ located = {}

OrderIdle ==
    /\ opc = "idle"
    /\ batch = <<>>
    /\ inOrder = <<>>
    /\ reordered = <<>>

ScanIdle ==
    /\ spc = "idle"
    /\ polygon = <<>>
    /\ row = 0
    /\ intersections = <<>>
    /\ filled = <<>>

Init ==
    /\ KernelIdle
    /\ DispatcherIdle
    /\ ResolverIdle
    /\ OrderIdle
    /\ ScanIdle
    /\ kwargs \in {Baseline(d) : d \in DataValues}
    /\ supplied = {}
    /\ missing = {}
    /\ pc = "setup"
    /\ entry = "none"
    /\ outcome = NoOutcome
    /\ engineCalls = <<>>

\* the caller sets keyword argument p to v (test_many.py: args.update(kwargs))
Supply(p, v) ==
    /\ pc = "setup"
    /\ p \notin supplied
    /\ Cardinality(supplied) + Cardinality(missing) < MaxSetup
    /\ kwargs' = [kwargs EXCEPT ![p] = v]
    /\ supplied' = supplied \cup {p}
    /\ UNCHANGED <<missing, pc, entry, outcome, engineCalls>>
    /\ UNCHANGED engineVars

\* an optional dependency is not installed, or its probe is patched to say so
\* (test_many.py, TestMissingDependencies)
Patch(dep) ==
    /\ pc = "setup"
    /\ dep \notin missing
    /\ Cardinality(supplied) + Cardinality(missing) < MaxSetup
    /\ missing' = missing \cup {dep}
    /\ UNCHANGED <<kwargs, supplied, pc, entry, outcome, engineCalls>>
    /\ UNCHANGED engineVars

\* rusterize(**kwargs), from its first line to its return or raise
rusterize ==
    /\ pc = "setup"
    /\ LET r == rusterize_result(kwargs, missing)
       IN /\ outcome' = [exc |-> r.exc, msg |-> r.msg]
          /\ engineCalls' = r.calls
    /\ pc' = "done"
    /\ entry' = "rusterize"
    /\ UNCHANGED <<kwargs, supplied, missing>>
    /\ UNCHANGED engineVars

\* rusterize.core.rusterize(**kwargs), likewise
core_rusterize ==
    /\ pc = "setup"
    /\ LET r == core_rusterize_result(kwargs, supplied, missing)
       IN /\ outcome' = [exc |-> r.exc, msg |-> r.msg]
          /\ engineCalls' = r.calls
    /\ pc' = "done"
    /\ entry' = "core"
    /\ UNCHANGED <<kwargs, supplied, missing>>
    /\ UNCHANGED engineVars

Next ==
    \/ \E p \in ParamNames : \E v \in Alt(p) : Supply(p, v)
    \/ \E dep \in Dependencies : Patch(dep)
    \/ rusterize
    \/ core_rusterize

Spec == Init /\ [][Next]_vars

(***************************************************************************)
(* Vocabulary of the properties.                                           *)
(***************************************************************************)
\* the call has run through the package's entry point
Main == pc = "done" /\ entry = "rusterize"

IsFrame(d) == d.t \in {"GeoDataFrame", "polars.DataFrame"}

\* v is a tuple or list of n numbers
NumbersOfLength(v, n) ==
    /\ v.t \in {"tuple", "list"}
    /\ Len(v.items) = n
    /\ \A i \in 1..Len(v.items) : IsNumber(v.items[i])

\* v is a tuple or list of exactly two positive numbers
TwoPositive(v) ==
    /\ NumbersOfLength(v, 2)
    /\ \A i \in 1..Len(v.items) : v.items[i].s = "" /\ v.items[i].n > 0

\* v names a column of the frame d / names none of its columns
NamesColumn(v, d) == v.t = "str" /\ v.s \in Columns(d)

NamesNoColumn(v, d) == v.t = "str" /\ v.s # "" /\ v.s \notin Columns(d)

\* the value of parameter p is one the documentation allows, on its own
ValidArg(p) ==
    LET v == kwargs[p]
    IN CASE p = "like" -> v \in {PyNone, TEMPLATE}
         [] p = "res" -> v = PyNone \/ TwoPositive(v)
         [] p = "out_shape" ->
               v = PyNone \/ (TwoPositive(v) /\ \A i \in 1..2 : IsInt(v.items[i]))
         [] p = "extent" ->
               v = PyNone
               \/ (NumbersOfLength(v, 4) /\ \E i \in 1..4 : ~EqZero(v.items[i]))
         [] p \in {"field", "by"} ->
               \/ v = PyNone
               \/ v.t = "str" /\ v.s # "" /\ ~IsFrame(kwargs.data)
               \/ NamesColumn(v, kwargs.data)
         [] p = "burn" -> v = PyNone \/ IsNumber(v)
         [] p = "fun" -> v.t = "str" /\ v.s \in Funs
         [] p = "background" -> v = PyNone \/ IsNumber(v)
         [] p = "encoding" -> v.t = "str" /\ v.s \in Encodings
         [] p \in {"all_touched", "tap"} -> v.t = "bool"
         [] p = "dtype" -> v.t = "str" /\ v.s \in DTypes

GridParams == {"like", "res", "out_shape", "extent"}

\* the grid is given in one of the documented ways
GridGiven ==
    \/ /\ kwargs.like = PyNone
       /\ kwargs.res # PyNone \/ kwargs.out_shape # PyNone
    \/ /\ kwargs.like = TEMPLATE
       /\ kwargs.res = PyNone /\ kwargs.out_shape = PyNone /\ kwargs.extent = PyNone

\* nothing is wrong with the call apart, possibly, from the parameters in S:
\* usable data, every dependency installed, every other parameter valid
CleanExcept(S) ==
    /\ kwargs.data \in {GDF, GDF_GEOM, PLDF, GEOMS}
    /\ missing = {}
    /\ \A p \in ParamNames \ S : ValidArg(p)
    /\ S \cap {"field", "burn"} = {} => (kwargs.field = PyNone \/ kwargs.burn = PyNone)
    /\ S \cap GridParams = {} => GridGiven

Raised(exc, msg) == outcome.exc = exc /\ outcome.msg = msg

EngineInvoked == engineCalls # <<>>

ConflictFieldBurn == Raised("ValueError", "Only one of field or burn can be specified.")

ConflictLike ==
    Raised("ValueError", "like is mutually exclusive with res, out_shape, and extent.")

\* C1: every call that sets both field (any string) and burn (any number), and
\* is otherwise in order, fails with "Only one of field or burn can be
\* specified" and never invokes the engine.  Stated here for the field names
\* that are not empty and, for a dataframe, name one of its columns.
C1_FieldAndBurnRejected ==
    (/\ Main
     /\ kwargs.field.t = "str" /\ kwargs.field.s # ""
     /\ IsNumber(kwargs.burn)
     /\ CleanExcept({"burn"}))
    => (ConflictFieldBurn /\ ~EngineInvoked)

\* C2 as amended: with a valid like template, any non-empty res, out_shape or
\* extent makes the call fail with "like is mutually exclusive ..." before the
\* engine is invoked.
C2_LikeExcludesNonEmptyGridArgs ==
    (/\ Main
     /\ kwargs.like = TEMPLATE
     /\ \A p \in {"res", "out_shape", "extent"} : IsSeqOrNone(kwargs[p])
     /\ \E p \in {"res", "out_shape", "extent"} : Truthy(kwargs[p])
     /\ CleanExcept(GridParams))
    => (ConflictLike /\ ~EngineInvoked)

\* C2 as stated: the same for any res, out_shape or extent that is not None.
C2_LikeExcludesNotNoneGridArgs ==
    (/\ Main
     /\ kwargs.like = TEMPLATE
     /\ \A p \in {"res", "out_shape", "extent"} : IsSeqOrNone(kwargs[p])
     /\ \E p \in {"res", "out_shape", "extent"} : kwargs[p] # PyNone
     /\ CleanExcept(GridParams))
    => (ConflictLike /\ ~EngineInvoked)

\* a template together with an extent (and the baseline res) was rejected
C2_Witness ==
    /\ Main
    /\ kwargs.like = TEMPLATE
    /\ Truthy(kwargs.extent)
    /\ CleanExcept(GridParams)
    /\ ConflictLike

\* C3: a valid call with a valid like template and no res, out_shape or extent
\* raises nothing and invokes the engine exactly once, with the template's
\* resolution, shape and bounds and with_user_extent true.
C3_LikeAccepted ==
    (/\ Main
     /\ kwargs.like = TEMPLATE
     /\ CleanExcept({}))
    => /\ outcome.exc = "none"
       /\ Len(engineCalls) = 1
       /\ LET info == engineCalls[1].info
          IN /\ <<info.xres, info.yres>> = TemplateRes(kwargs.like).items
             /\ <<info.nrows, info.ncols>> = TemplateShape(kwargs.like).items
             /\ <<info.xmin, info.ymin, info.xmax, info.ymax>>
                    = TemplateBounds(kwargs.like).items
             /\ info.with_user_extent

GridUnderspecified ==
    \/ Raised("ValueError", "One of res, out_shape, or extent must be provided.")
    \/ Raised("ValueError", "Must also specify res or out_shape with extent.")

\* the call gets as far as the checks of the grid arguments: nothing else is
\* wrong with it, and res, out_shape and extent have an allowed type
ReachesGridChecks ==
    /\ Main
    /\ kwargs.like = PyNone
    /\ \A p \in {"res", "out_shape", "extent"} : IsSeqOrNone(kwargs[p])
    /\ CleanExcept(GridParams)

\* C4 as amended: without like, the call fails with GridUnderspecified exactly
\* when none of res, out_shape, extent is given, or extent is given with
\* neither res nor out_shape, where an argument is given when it is a
\* non-empty tuple or list (None and empty sequences both count as absent).
C4_UnderspecifiedIffNothingNonEmpty ==
    ReachesGridChecks
    => (GridUnderspecified
        <=> \/ (~Truthy(kwargs.res) /\ ~Truthy(kwargs.out_shape) /\ ~Truthy(kwargs.extent))
            \/ (Truthy(kwargs.extent) /\ ~Truthy(kwargs.res) /\ ~Truthy(kwargs.out_shape)))

\* C4 as stated: the same with "given" meaning passed, that is, not None.
C4_UnderspecifiedIffNothingPassed ==
    ReachesGridChecks
    => (GridUnderspecified
        <=> \/ (kwargs.res = PyNone /\ kwargs.out_shape = PyNone /\ kwargs.extent = PyNone)
            \/ (kwargs.extent # PyNone /\ kwargs.res = PyNone /\ kwargs.out_shape = PyNone))

\* a well-formed extent on its own was rejected as underspecified
C4_Witness ==
    /\ ReachesGridChecks
    /\ ValidArg("extent") /\ kwargs.extent # PyNone
    /\ kwargs.res = PyNone /\ kwargs.out_shape = PyNone
    /\ Raised("ValueError", "Must also specify res or out_shape with extent.")

ResRejected == Raised("ValueError", "res must be 2 positive numbers.")

\* C5: every res passed as a tuple or list that is not two positive numbers is
\* rejected with "res must be 2 positive numbers" before the engine is invoked,
\* so whenever the engine is invoked by a call that passed res, xres > 0 and
\* yres > 0.  Stated here for the non-empty tuples and lists only.
C5_BadResRejected ==
    /\ (/\ Main
        /\ kwargs.like = PyNone
        /\ kwargs.res.t \in {"tuple", "list"}
        /\ Truthy(kwargs.res)
        /\ ~TwoPositive(kwargs.res)
        /\ CleanExcept({"res"}))
       => (ResRejected /\ ~EngineInvoked)
    /\ (/\ Main
        /\ Truthy(kwargs.res)
        /\ EngineInvoked)
       => /\ LeZero(engineCalls[1].info.xres) = "False"
          /\ LeZero(engineCalls[1].info.yres) = "False"

\* C6: every extent passed as a tuple or list that is not four numbers, or is
\* four zeros, is rejected with a ValueError and the engine is never invoked.
\* Stated here for the non-empty tuples and lists only.
C6_BadExtentRejected ==
    (/\ Main
     /\ kwargs.like = PyNone
     /\ kwargs.extent.t \in {"tuple", "list"}
     /\ Truthy(kwargs.extent)
     /\ ~ValidArg("extent")
     /\ CleanExcept({"extent"}))
    => (outcome.exc = "ValueError" /\ ~EngineInvoked)

InvalidArgument ==
    \/ Raised("ValueError", "encoding must be one of xarray, numpy, or sparse.")
    \/ Raised("ValueError", "unknown reduction name")
    \/ Raised("ValueError", "unknown dtype name")

\* C7: a call whose fun, dtype or encoding is a string outside the supported
\* names, and is otherwise in order, fails with InvalidArgument and returns no
\* output.
C7_UnknownNamesRejected ==
    (/\ Main
     /\ kwargs.fun.t = "str" /\ kwargs.dtype.t = "str" /\ kwargs.encoding.t = "str"
     /\ \/ kwargs.fun.s \notin Funs
        \/ kwargs.dtype.s \notin DTypes
        \/ kwargs.encoding.s \notin Encodings
     /\ CleanExcept({"fun", "dtype", "encoding"}))
    => (InvalidArgument /\ outcome.exc # "none")

ColumnNotFound ==
    \/ Raised("KeyError", "Column not found in GeoDataFrame.")
    \/ Raised("KeyError", "Column not found in polars DataFrame.")

\* C8: for dataframe input, whenever field or by names a column that is not in
\* the data, the call fails with KeyError "Column not found ..." and the engine
\* is never invoked.
C8_MissingColumnIsKeyError ==
    (/\ Main
     /\ IsFrame(kwargs.data)
     /\ \/ NamesNoColumn(kwargs.field, kwargs.data)
        \/ NamesNoColumn(kwargs.by, kwargs.data)
     /\ CleanExcept({"field", "by"})
     /\ kwargs.burn = PyNone)
    => (ColumnNotFound /\ ~EngineInvoked)

C10_ByWithoutFieldAllowed ==
    /\ (/\ pc = "done"
        /\ kwargs.by.t = "str" /\ kwargs.by.s # ""
        /\ kwargs.field = PyNone)
       => ~Raised("ValueError", "If by is specified, field must also be specified.")
    /\ (/\ Main
        /\ kwargs.by.t = "str" /\ kwargs.by.s # ""
        /\ kwargs.field = PyNone
        /\ CleanExcept({}))
       => /\ Len(engineCalls) = 1
          /\ engineCalls[1].field = PyNone
          /\ engineCalls[1].by = kwargs.by

(***************************************************************************)
(* Empty input.                                                            *)
(***************************************************************************)
\* the input holds no geometry: a dataframe with no rows, a list with no item
IsEmptyData(d) == IsEmptyFrame(d) \/ NoGeometries(d)

\* the caller fixed the extent, directly or through a template
UserExtent == kwargs.extent # PyNone \/ kwargs.like # PyNone

EmptyInput ==
    \/ Raised("ValueError", "GeoDataFrame is empty.")
    \/ Raised("ValueError", "no geometries and no user extent")

\* every argument but data is in order and every dependency is installed
CleanArguments ==
    /\ missing = {}
    /\ \A p \in ParamNames : ValidArg(p)
    /\ kwargs.field = PyNone \/ kwargs.burn = PyNone
    /\ GridGiven

\* C11: the call fails with EmptyInput exactly when the input holds no
\* geometry and no user extent (extent or like) is supplied: an empty input
\* of any accepted kind without an extent is rejected as empty, an empty input
\* with a user extent is not, and neither is an input that is not empty.
C11_EmptyInputIffNoUserExtent ==
    (/\ Main
     /\ kwargs.data \in DataValues \ {PyStr("not_a_dataframe")}
     /\ CleanArguments)
    => (EmptyInput <=> (IsEmptyData(kwargs.data) /\ ~UserExtent))

(***************************************************************************)
(* Types before values.                                                    *)
(***************************************************************************)
\* the value of parameter p has a type the signature allows
TypeAllowed(p) ==
    LET v == kwargs[p]
    IN CASE p = "like" -> v = PyNone \/ IsXarrayObject(v)
         [] p \in {"res", "out_shape", "extent"} -> IsSeqOrNone(v)
         [] p \in {"field", "by"} -> IsStrOrNone(v)
         [] p \in {"burn", "background"} -> IsNumberOrNone(v)
         [] p \in {"fun", "encoding", "dtype"} -> v.t = "str"
         [] p \in {"all_touched", "tap"} -> v.t = "bool"

\* data is of an accepted kind and is not empty
DataAccepted == data_type(kwargs.data, missing).exc = ""

\* the checks of lines 148-157 let the call through to the check of like
ValueChecksPass ==
    /\ ~field_and_burn(kwargs.field, kwargs.burn)
    /\ ~unknown_encoding(kwargs.encoding)
    /\ kwargs.encoding.s = "xarray" => xarray_available(missing)

\* C12 as amended: for valid data, a value of a disallowed type for any of
\* res, out_shape, extent, field, by, burn, fun, background, encoding,
\* all_touched, tap, dtype raises TypeError whatever the other arguments are,
\* and the engine is never invoked.  A like of a disallowed type never
\* reaches the engine either, but its type is checked after the value checks
\* of field/burn and encoding: it raises TypeError only when those pass, and
\* the ValueError or ModuleNotFoundError of those checks otherwise.
C12_TypeErrorBeforeValueChecks ==
    /\ (/\ Main
        /\ DataAccepted
        /\ \E p \in ParamNames \ {"like"} : ~TypeAllowed(p))
       => (outcome.exc = "TypeError" /\ ~EngineInvoked)
    /\ (/\ Main
        /\ DataAccepted
        /\ \A p \in ParamNames \ {"like"} : TypeAllowed(p)
        /\ ~TypeAllowed("like"))
       => /\ ~EngineInvoked
          /\ ValueChecksPass => outcome.exc = "TypeError"
          /\ ~ValueChecksPass => outcome.exc \in {"ValueError", "ModuleNotFoundError"}

\* C12 as stated: a disallowed type for any of the thirteen parameters, like
\* included, raises TypeError whatever the other arguments are.
C12_TypeErrorWhateverTheRest ==
    (/\ Main
     /\ DataAccepted
     /\ \E p \in ParamNames : ~TypeAllowed(p))
    => (outcome.exc = "TypeError" /\ ~EngineInvoked)

\* a by of the wrong type was reported although field and burn conflict too
C12_Witness ==
    /\ Main
    /\ DataAccepted
    /\ ~TypeAllowed("by")
    /\ field_and_burn(kwargs.field, kwargs.burn)
    /\ Raised("TypeError", "by must be a string column name.")

(***************************************************************************)
(* Missing xarray.                                                         *)
(***************************************************************************)
XarrayMissing == "xarray" \in missing \/ "rioxarray" \in missing

\* the call gets as far as the check of line 154
PassesEarlierChecks ==
    /\ DataAccepted
    /\ type_checks(kwargs) = ""
    /\ ~field_and_burn(kwargs.field, kwargs.burn)

XarrayRequired == Raised("ModuleNotFoundError", "xarray and rioxarray must be installed")

\* what the same call does when xarray and rioxarray are installed
WithXarrayInstalled == rusterize_result(kwargs, missing \ {"xarray", "rioxarray"})

\* C13: when xarray or rioxarray is unavailable, every call with encoding
\* "xarray" that passes the earlier checks fails with ModuleNotFoundError
\* before the engine is invoked, and a call with encoding "numpy" or "sparse"
\* and no like does exactly what it does when the two are installed.
C13_XarrayNeededOnlyForXarrayEncoding ==
    /\ (/\ Main
        /\ XarrayMissing
        /\ kwargs.encoding = PyStr("xarray")
        /\ PassesEarlierChecks)
       => (XarrayRequired /\ ~EngineInvoked)
    /\ (/\ Main
        /\ XarrayMissing
        /\ kwargs.encoding \in {PyStr("numpy"), PyStr("sparse")}
        /\ kwargs.like = PyNone)
       => /\ ~XarrayRequired
          /\ outcome = [exc |-> WithXarrayInstalled.exc, msg |-> WithXarrayInstalled.msg]
          /\ engineCalls = WithXarrayInstalled.calls

\* with rioxarray alone missing, a default call was stopped at line 154
C13_Witness ==
    /\ Main
    /\ missing = {"rioxarray"}
    /\ kwargs.encoding = PyStr("xarray")
    /\ PassesEarlierChecks
    /\ XarrayRequired
    /\ ~EngineInvoked

(***************************************************************************)
(* Raw input: field and by.                                                *)
(***************************************************************************)
RawData == kwargs.data.t \in {"list", "ndarray"}

\* what the same call does with field and by left out
WithoutFieldAndBy ==
    rusterize_result([kwargs EXCEPT !.field = PyNone, !.by = PyNone], missing)

\* what the engine is given to rasterize: geometries, grid spec, burn and the
\* attribute dataframe
Rasterized(calls) ==
    [i \in 1..Len(calls) |->
        [geometries |-> calls[i].geometries, info |-> calls[i].info,
         burn |-> calls[i].burn, df |-> calls[i].df]]

\* C14: for list or ndarray input, field and by are not considered: a call
\* has the outcome of the same call without field and by, that is, the same
\* error, or the engine invoked with the same geometries, grid spec and burn
\* and no attribute dataframe.
C14_RawInputIgnoresFieldAndBy ==
    (/\ Main
     /\ RawData
     /\ IsStrOrNone(kwargs.field)
     /\ IsStrOrNone(kwargs.by))
    => /\ outcome = [exc |-> WithoutFieldAndBy.exc, msg |-> WithoutFieldAndBy.msg]
       /\ Rasterized(engineCalls) = Rasterized(WithoutFieldAndBy.calls)
       /\ \A i \in 1..Len(engineCalls) : engineCalls[i].df = NoFrame

(***************************************************************************)
(* The reduction kernel and the output encoder (design sections 4.4 and    *)
(* 4.6).  One run folds the pixel emissions of up to MaxRecords records    *)
(* into one band, then finalizes and encodes it.                           *)
(***************************************************************************)
\* the pixels of the band, (row, col), in row-major order
PixelSeq == <<(<<0, 0>>), (<<0, 1>>)>>

Pixels == {PixelSeq[i] : i \in 1..Len(PixelSeq)}

\* how many records one run folds
MaxRecords == 3

\* how many primitives of one record may emit the same pixel
MaxOverlap == 2

\* pixel values: a number or NaN
Number(n) == [nan |-> FALSE, n |-> n]

NaN == [nan |-> TRUE, n |-> 0]

\* burn: absent, or a value
NoBurn == [given |-> FALSE, n |-> 0]

Burn(k) == [given |-> TRUE, n |-> k]

\* the burn values, field values and background values of the runs explored
BurnValues == {NoBurn, Burn(1), Burn(2), Burn(200), Burn(-1)}

FieldValues == {1, 100}

BackgroundValues == {NaN, Number(0), Number(-1)}

IsFloatType(dt) == dt \in {"float32", "float64"}

\* the least and greatest value of an integer type; the 32 and 64 bit types
\* are wider than any value a run explored here can produce
TypeMin(dt) ==
    CASE dt \in {"uint8", "uint16", "uint32", "uint64"} -> 0
      [] dt = "int8" -> -128
      [] dt = "int16" -> -32768
      [] OTHER -> -2147483647

TypeMax(dt) ==
    CASE dt = "uint8" -> 255
      [] dt = "int8" -> 127
      [] dt = "uint16" -> 65535
      [] dt = "int16" -> 32767
      [] OTHER -> 2147483647

Representable(dt, n) == IsFloatType(dt) \/ (TypeMin(dt) <= n /\ n <= TypeMax(dt))

\* the spacing of the float32 values around n: 1 below 2^24, doubling with
\* every further binary digit (24 significant bits)
RECURSIVE float32_ulp(_)
float32_ulp(n) ==
    LET a == IF n < 0 THEN -n ELSE n
    IN IF a < 16777216 THEN 1 ELSE 2 * float32_ulp(a \div 2)

\* the float32 nearest to the integer n, ties to the even significand
float32_round(n) ==
    LET u == float32_ulp(n)
        q == n \div u
        r == n % u
    IN IF 2 * r < u THEN q * u
       ELSE IF 2 * r > u THEN (q + 1) * u
       ELSE IF q % 2 = 0 THEN q * u
       ELSE (q + 1) * u

\* contributions are cast with saturation for integer types; a float32
\* holds the nearest value it can represent, a float64 every value a run
\* explored here can produce
saturating_cast(dt, n) ==
    IF dt = "float32" THEN float32_round(n)
    ELSE IF IsFloatType(dt) THEN n
    ELSE IF n < TypeMin(dt) THEN TypeMin(dt)
    ELSE IF n > TypeMax(dt) THEN TypeMax(dt)
    ELSE n

\* the background is coerced to the output type; a value the type cannot
\* represent is replaced by the default of the type, 0 for integers
coerce_background(dt, bg) ==
    IF IsFloatType(dt) THEN bg
    ELSE IF bg.nan \/ ~Representable(dt, bg.n) THEN Number(0)
    ELSE bg

\* the state of a pixel: unset, or set with a value (a counter for count)
Unset == [set |-> FALSE, acc |-> 0]

Set(n) == [set |-> TRUE, acc |-> n]

\* the update column with sum written as `acc = v` instead of `acc += v`
update_sum_overwrites(fun, dt, state, v) ==
    CASE fun = "first" -> IF state.set THEN state ELSE Set(v)
      [] fun = "last" -> Set(v)
      [] fun = "sum" -> Set(v)
      [] fun = "min" -> IF state.set /\ state.acc <= v THEN state ELSE Set(v)
      [] fun = "max" -> IF state.set /\ state.acc >= v THEN state ELSE Set(v)
      [] fun = "count" -> Set(saturating_cast(dt, state.acc + 1))
      [] fun = "any" -> Set(1)

\* the update column of the table of section 4.4, v already of the output type
update(fun, dt, state, v) ==
    CASE fun = "first" -> IF state.set THEN state ELSE Set(v)
      [] fun = "last" -> Set(v)
      [] fun = "sum" ->
            IF state.set THEN Set(saturating_cast(dt, state.acc + v)) ELSE Set(v)
      [] fun = "min" -> IF state.set /\ state.acc <= v THEN state ELSE Set(v)
      [] fun = "max" -> IF state.set /\ state.acc >= v THEN state ELSE Set(v)
      [] fun = "count" -> Set(saturating_cast(dt, state.acc + 1))
      [] fun = "any" -> Set(1)

RECURSIVE update_times(_, _, _, _, _)
update_times(fun, dt, state, v, n) ==
    IF n = 0 THEN state
    ELSE update_times(fun, dt, update(fun, dt, state, v), v, n - 1)

\* the fold with the per-record de-duplication applied to every reduction,
\* sum and count included
fold_record_deduplicated(fun, dt, b, e, v) ==
    [p \in Pixels |->
        IF e[p] = 0 THEN b[p]
        ELSE update(fun, dt, b[p], saturating_cast(dt, v))]

\* one record, emitting pixel p e[p] times: every emission counts for sum and
\* count, a pixel is updated at most once per record for the others
fold_record(fun, dt, b, e, v) ==
    [p \in Pixels |->
        IF e[p] = 0 THEN b[p]
        ELSE IF fun \in {"sum", "count"}
        THEN update_times(fun, dt, b[p], saturating_cast(dt, v), e[p])
        ELSE update(fun, dt, b[p], saturating_cast(dt, v))]

\* finalize with an unset pixel written as 0 instead of the background
finalize_unset_as_zero(fun, state, bg) ==
    CASE fun = "count" -> Number(state.acc)
      [] fun = "any" -> IF state.set THEN Number(1) ELSE Number(0)
      [] OTHER -> IF state.set THEN Number(state.acc) ELSE Number(0)

\* the finalize column of the table of section 4.4, bg already coerced
finalize(fun, state, bg) ==
    CASE fun = "count" -> Number(state.acc)
      [] fun = "any" -> IF state.set THEN Number(1) ELSE bg
      [] OTHER -> IF state.set THEN Number(state.acc) ELSE bg

\* dense, plain: the finalized array
dense_encode(fun, b, bg) == [p \in Pixels |-> finalize(fun, b[p], bg)]

\* dense, georeferenced: the same array with the affine transform attached
georeferenced_encode(fun, b, bg) ==
    [data |-> dense_encode(fun, b, bg), transform |-> "affine", band |-> <<"0">>]

\* the pixels the sparse encoding keeps, as written for every reduction but
\* count: those whose state is not the background sentinel
sparse_kept_when_set(fun, state) == state.set

\* the pixels the sparse encoding keeps: those whose state is not the
\* background sentinel, and all pixels for count
sparse_kept(fun, state) == fun = "count" \/ state.set

\* sparse: per band, three equal-length vectors rows, cols, values
sparse_encode(fun, b, bg) ==
    LET kept == SelectSeq(PixelSeq, LAMBDA p : sparse_kept(fun, b[p]))
    IN [rows |-> [i \in 1..Len(kept) |-> kept[i][1]],
        cols |-> [i \in 1..Len(kept) |-> kept[i][2]],
        values |-> [i \in 1..Len(kept) |-> finalize(fun, b[kept[i]], bg)]]

\* a sparse band written onto a grid filled with the background
sparse_to_dense(sp, bg) ==
    [p \in Pixels |->
        LET at == {i \in 1..Len(sp.rows) : sp.rows[i] = p[1] /\ sp.cols[i] = p[2]}
        IN IF at = {} THEN bg ELSE sp.values[CHOOSE i \in at : TRUE]]

\* the contribution of a record: the burn value when given, else its field
\* value (1 when there is no field)
Contributions(o) == IF o.burn.given THEN {o.burn.n} ELSE FieldValues

Emissions == [Pixels -> 0..MaxOverlap]

KernelStart ==
    /\ kpc = "fold"
    /\ opts \in [fun : Funs, dtype : DTypes, background : BackgroundValues,
                 burn : BurnValues]
    /\ band = [p \in Pixels |-> Unset]
    /\ hits = [p \in Pixels |-> 0]
    /\ nfolded = 0
    /\ output = <<>>

\* no call is being made
CallIdle ==
    /\ kwargs = Baseline(GEOMS)
    /\ supplied = {}
    /\ missing = {}
    /\ pc = "engine"
    /\ entry = "none"
    /\ outcome = NoOutcome
    /\ engineCalls = <<>>

\* the next record is scan-converted and its emissions e folded with value v
Fold(e, v) ==
    /\ kpc = "fold"
    /\ nfolded < MaxRecords
    /\ band' = fold_record(opts.fun, opts.dtype, band, e, v)
    /\ hits' = [p \in Pixels |-> hits[p] + e[p]]
    /\ nfolded' = nfolded + 1
    /\ UNCHANGED <<kpc, opts, output>>
    /\ UNCHANGED <<callVars, dispatcherVars, resolverVars, orderVars, scanVars>>

\* the input is exhausted: the band is finalized and encoded
Encode(encoding) ==
    /\ kpc = "fold"
    /\ kpc' = "done"
    /\ LET bg == coerce_background(opts.dtype, opts.background)
       IN output' =
            [encoding |-> encoding,
             array |->
                CASE encoding = "numpy" -> dense_encode(opts.fun, band, bg)
                  [] encoding = "xarray" -> georeferenced_encode(opts.fun, band, bg)
                  [] encoding = "sparse" -> sparse_encode(opts.fun, band, bg)]
    /\ UNCHANGED <<opts, band, hits, nfolded>>
    /\ UNCHANGED <<callVars, dispatcherVars, resolverVars, orderVars, scanVars>>

KernelInit ==
    CallIdle /\ KernelStart /\ DispatcherIdle /\ ResolverIdle /\ OrderIdle /\ ScanIdle

KernelNext ==
    \/ \E e \in Emissions : \E v \in Contributions(opts) : Fold(e, v)
    \/ \E encoding \in Encodings : Encode(encoding)

KernelSpec == KernelInit /\ [][KernelNext]_vars

\* the output as a plain array over the pixels, whatever its encoding
OutputArray ==
    CASE output.encoding = "numpy" -> output.array
      [] output.encoding = "xarray" -> output.array.data
      [] output.encoding = "sparse" ->
            sparse_to_dense(output.array,
                            coerce_background(opts.dtype, opts.background))

Touched(p) == hits[p] > 0

KernelDone == kpc = "done"


Background == coerce_background(opts.dtype, opts.background)

\* the burn value as the band stores it
BurnCast == saturating_cast(opts.dtype, opts.burn.n)

C17_EncodingsEquivalent ==
    KernelDone
    => /\ OutputArray = dense_encode(opts.fun, band, Background)
       /\ output.encoding = "sparse" =>
             /\ Len(output.array.rows) = Len(output.array.cols)
             /\ Len(output.array.rows) = Len(output.array.values)
             /\ \A i \in 1..Len(output.array.rows) :
                   <<output.array.rows[i], output.array.cols[i]>> \in Pixels
       /\ output.encoding = "xarray" =>
             output.array.data = dense_encode(opts.fun, band, Background)

\* a sparse band with one pixel kept and one left to the background
C17_Witness ==
    /\ KernelDone
    /\ output.encoding = "sparse"
    /\ Len(output.array.rows) = 1
    /\ \E p \in Pixels : ~Touched(p) /\ OutputArray[p] = Background
    /\ \E p \in Pixels : Touched(p) /\ OutputArray[p] # Background

(***************************************************************************)
(* The band dispatcher (design sections 4.5 and 5).  The records of the    *)
(* input, each with its group key, are shared out among the worker         *)
(* threads; a worker takes its records in input order and, for each, looks *)
(* the key up in the band table and appends a band when the key is new,    *)
(* holding the exclusive guard of the table while it does.                 *)
(***************************************************************************)
GroupKeys == {"a", "b", "c"}

\* how many records the input holds
MaxInput == 3

\* how many worker threads the pool runs
NWorkers == 2

Workers == 1..NWorkers

\* the keys of a sequence of records in order of first appearance
RECURSIVE FirstAppearance(_)
FirstAppearance(keys) ==
    IF keys = <<>> THEN <<>>
    ELSE LET front == FirstAppearance(SubSeq(keys, 1, Len(keys) - 1))
             k == keys[Len(keys)]
         IN IF \E i \in 1..Len(front) : front[i] = k THEN front
            ELSE Append(front, k)

\* the lookup with the append made whether or not the key is in the table
band_table_append_always(table, key) == Append(table, key)

\* section 4.5: look the key up; if absent, append a new band
band_table_lookup_or_append(table, key) ==
    IF \E i \in 1..Len(table) : table[i] = key THEN table ELSE Append(table, key)

\* the records of worker w that are still to be dispatched
Pending(w) == {i \in 1..Len(records) : owner[i] = w /\ i \notin dispatched}

DispatcherStart ==
    /\ dpc = "run"
    /\ records \in UNION {[1..n -> GroupKeys] : n \in 1..MaxInput}
    /\ owner \in [1..Len(records) -> Workers]
    /\ dispatched = {}
    /\ bandTable = <<>>

\* worker w takes the guard and dispatches its next record
Dispatch(w) ==
    /\ dpc = "run"
    /\ Pending(w) # {}
    /\ LET i == CHOOSE i \in Pending(w) : \A j \in Pending(w) : i <= j
       IN /\ bandTable' = band_table_lookup_or_append(bandTable, records[i])
          /\ dispatched' = dispatched \cup {i}
    /\ UNCHANGED <<dpc, records, owner>>
    /\ UNCHANGED <<callVars, kernelVars, resolverVars, orderVars, scanVars>>

\* every worker is through: the stack is returned in band-table order
Return ==
    /\ dpc = "run"
    /\ dispatched = 1..Len(records)
    /\ dpc' = "done"
    /\ UNCHANGED <<records, owner, dispatched, bandTable>>
    /\ UNCHANGED <<callVars, kernelVars, resolverVars, orderVars, scanVars>>

DispatcherInit ==
    CallIdle /\ KernelIdle /\ DispatcherStart /\ ResolverIdle /\ OrderIdle /\ ScanIdle

DispatcherNext ==
    \/ \E w \in Workers : Dispatch(w)
    \/ Return

DispatcherSpec == DispatcherInit /\ [][DispatcherNext]_vars

Returned == dpc = "done"

OneWorker == \A i \in 1..Len(records) : owner[i] = owner[1]

RECURSIVE GCD(_, _)
GCD(a, b) == IF b = 0 THEN a ELSE GCD(b, a % b)

Q(n, d) ==
    LET g == GCD(IF n < 0 THEN -n ELSE n, d)
    IN <<n \div g, d \div g>>

QAdd(a, b) == Q(a[1] * b[2] + b[1] * a[2], a[2] * b[2])

QSub(a, b) == Q(a[1] * b[2] - b[1] * a[2], a[2] * b[2])

QTimes(a, n) == Q(a[1] * n, a[2])

QOver(a, n) == Q(a[1], a[2] * n)

\* a / b for b > 0
QDiv(a, b) == Q(a[1] * b[2], a[2] * b[1])

QLe(a, b) == a[1] * b[2] <= b[1] * a[2]

QLt(a, b) == a[1] * b[2] < b[1] * a[2]

QFloor(a) == a[1] \div a[2]

QCeil(a) == -((-a[1]) \div a[2])

QPositive(a) == a[1] > 0

\* zero in a grid spec: derive this
Derive == <<0, 1>>

\* the resolutions, shapes, extents and data bounds of the runs explored, per
\* axis; a data interval of zero width is that of a single point or of a line
\* parallel to the other axis
MaxShape == 3

ResValues == {Q(1, 2), Q(1, 1), Q(2, 1)}

ShapeValues == 1..MaxShape

ExtentValues == {<<Q(0, 1), Q(2, 1)>>, <<Q(0, 1), Q(3, 1)>>, <<Q(-2, 1), Q(1, 1)>>}

DataIntervals == {<<Q(0, 1), Q(0, 1)>>, <<Q(0, 1), Q(1, 1)>>, <<Q(-1, 1), Q(2, 1)>>}

\* the bounds with no half-pixel buffer around them
half_pixel_buffer_none(lo, hi, r) == <<lo, hi>>

\* half-pixel buffer: the bounds expanded outward by half the resolution
half_pixel_buffer(lo, hi, r) == <<QSub(lo, QOver(r, 2)), QAdd(hi, QOver(r, 2))>>

\* Target-Aligned Pixels: the bounds snapped outward to multiples of r
target_aligned(lo, hi, r) ==
    <<QTimes(r, QFloor(QDiv(lo, r))), QTimes(r, QCeil(QDiv(hi, r)))>>

\* the upper bound left where it was after the dimension is rounded up
resnap_skipped(lo, hi, r, n) == hi

\* the upper bound re-snapped so that the grid is exact
resnap(lo, hi, r, n) == QAdd(lo, QTimes(r, n))

\* one axis of the table of section 4.1.  given: the user extent on this axis
\* (used when wue); res: the resolution, Derive when not supplied; n: the
\* dimension, 0 when not supplied; data: the data bounds on this axis.  With
\* out_shape only, the half pixel of the buffer is taken at the resolution
\* the data bounds give, and the resolution is then (hi - lo) / n of the
\* buffered bounds, as in the table.
resolve_axis(given, res, n, data, wue, tap) ==
    LET has_res == res # Derive
        start == IF wue THEN given ELSE data
        r0 == IF has_res THEN res ELSE QOver(QSub(start[2], start[1]), n)
        buffered == IF wue THEN start ELSE half_pixel_buffer(start[1], start[2], r0)
        r == IF has_res THEN res ELSE QOver(QSub(buffered[2], buffered[1]), n)
        snap == tap /\ ~wue /\ QPositive(r)
        snapped == IF snap THEN target_aligned(buffered[1], buffered[2], r) ELSE buffered
        dim == IF n = 0 \/ snap
               THEN QCeil(QDiv(QSub(snapped[2], snapped[1]), r))
               ELSE n
        hi == IF wue THEN snapped[2] ELSE resnap(snapped[1], snapped[2], r, dim)
    IN IF wue /\ has_res /\ n # 0 /\ given[2] # QAdd(given[1], QTimes(res, n))
       THEN [failed |-> TRUE, lo |-> given[1], hi |-> given[2], res |-> res, n |-> n]
       ELSE [failed |-> FALSE, lo |-> snapped[1], hi |-> hi, res |-> r, n |-> dim]

\* the grid of a grid spec and the data bounds
resolve(g, data) ==
    LET x == resolve_axis(<<g.xmin, g.xmax>>, g.xres, g.ncols,
                          <<data.xmin, data.xmax>>, g.with_user_extent, g.tap)
        y == resolve_axis(<<g.ymin, g.ymax>>, g.yres, g.nrows,
                          <<data.ymin, data.ymax>>, g.with_user_extent, g.tap)
    IN IF x.failed \/ y.failed
       THEN [failed |-> TRUE, error |-> "GridInconsistent"]
       ELSE [failed |-> FALSE, xmin |-> x.lo, xmax |-> x.hi, xres |-> x.res,
             ncols |-> x.n, ymin |-> y.lo, ymax |-> y.hi, yres |-> y.res,
             nrows |-> y.n]

\* section 4.3, Point: c = floor((x - xmin)/xres), r = floor((ymax - y)/yres);
\* no pixel when a resolution is zero
locate(G, x, y) ==
    IF ~QPositive(G.xres) \/ ~QPositive(G.yres)
    THEN [x |-> x, y |-> y, valid |-> FALSE, col |-> 0, row |-> 0]
    ELSE [x |-> x, y |-> y, valid |-> TRUE,
          col |-> QFloor(QDiv(QSub(x, G.xmin), G.xres)),
          row |-> QFloor(QDiv(QSub(G.ymax, y), G.yres))]

\* the accepted ways of giving the grid, as the grid spec encodes them
GridModes == {"res", "out_shape", "extent_res", "extent_out_shape", "extent_res_out_shape"}

GridSpecs ==
    UNION {
      {[with_user_extent |-> m \in {"extent_res", "extent_out_shape", "extent_res_out_shape"},
        tap |-> t,
        xres |-> IF m \in {"res", "extent_res", "extent_res_out_shape"} THEN rx ELSE Derive,
        yres |-> IF m \in {"res", "extent_res", "extent_res_out_shape"} THEN ry ELSE Derive,
        ncols |-> IF m \in {"out_shape", "extent_out_shape", "extent_res_out_shape"} THEN nx ELSE 0,
        nrows |-> IF m \in {"out_shape", "extent_out_shape", "extent_res_out_shape"} THEN ny ELSE 0,
        xmin |-> IF m \in {"res", "out_shape"} THEN Derive ELSE ex[1],
        xmax |-> IF m \in {"res", "out_shape"} THEN Derive ELSE ex[2],
        ymin |-> IF m \in {"res", "out_shape"} THEN Derive ELSE ey[1],
        ymax |-> IF m \in {"res", "out_shape"} THEN Derive ELSE ey[2]] :
          rx \in ResValues, ry \in ResValues, nx \in ShapeValues, ny \in ShapeValues,
          ex \in ExtentValues, ey \in ExtentValues, t \in BOOLEAN}
      : m \in GridModes}

DataBounds ==
    {[xmin |-> dx[1], xmax |-> dx[2], ymin |-> dy[1], ymax |-> dy[2]] :
        dx \in DataIntervals, dy \in DataIntervals}

\* the corners of the data bounds: input vertices on the data border
Vertices(data) == {data.xmin, data.xmax} \X {data.ymin, data.ymax}

ResolverStart ==
    /\ gpc = "given"
    /\ gridSpec \in GridSpecs
    /\ dataBounds \in DataBounds
    /\ grid = <<>>
    /\ located = {}

\* the grid is computed once, at the start
Resolve ==
    /\ gpc = "given"
    /\ gpc' = "resolved"
    /\ grid' = resolve(gridSpec, dataBounds)
    /\ UNCHANGED <<gridSpec, dataBounds, located>>
    /\ UNCHANGED <<callVars, kernelVars, dispatcherVars, orderVars, scanVars>>

\* an input vertex is mapped to its pixel
Locate(v) ==
    /\ gpc = "resolved"
    /\ ~grid.failed
    /\ \A l \in located : <<l.x, l.y>> # v
    /\ located' = located \cup {locate(grid, v[1], v[2])}
    /\ UNCHANGED <<gpc, gridSpec, dataBounds, grid>>
    /\ UNCHANGED <<callVars, kernelVars, dispatcherVars, orderVars, scanVars>>

ResolverInit ==
    CallIdle /\ KernelIdle /\ DispatcherIdle /\ ResolverStart /\ OrderIdle /\ ScanIdle

ResolverNext ==
    \/ Resolve
    \/ \E v \in Vertices(dataBounds) : Locate(v)

ResolverSpec == ResolverInit /\ [][ResolverNext]_vars

Resolved == gpc = "resolved" /\ ~grid.failed

HasRes == gridSpec.xres # Derive

HasShape == gridSpec.ncols # 0

\* hi = lo + n * res
AxisExact(lo, hi, res, n) == hi = QAdd(lo, QTimes(res, n))

\* the n pixels cover [lo, hi] and overshoot it by less than one pixel
AxisCovers(lo, hi, res, n) ==
    /\ QLe(hi, QAdd(lo, QTimes(res, n)))
    /\ QLt(QAdd(lo, QTimes(res, n)), QAdd(hi, res))

VerticesInBounds ==
    \A v \in Vertices(dataBounds) :
       /\ QLe(grid.xmin, v[1]) /\ QLe(v[1], grid.xmax)
       /\ QLe(grid.ymin, v[2]) /\ QLe(v[2], grid.ymax)

LocatedInRange ==
    \A l \in located :
       /\ l.valid
       /\ 0 <= l.col /\ l.col < grid.ncols
       /\ 0 <= l.row /\ l.row < grid.nrows

HandedToEngine ==
    /\ Main
    /\ kwargs.like = PyNone
    /\ outcome.exc = "none"
    /\ Len(engineCalls) = 1

GridInfo == engineCalls[1].info

InfoRes == <<GridInfo.xres, GridInfo.yres>>

InfoShape == <<GridInfo.nrows, GridInfo.ncols>>

InfoBounds == <<GridInfo.xmin, GridInfo.ymin, GridInfo.xmax, GridInfo.ymax>>

AllZero(items) == \A i \in 1..Len(items) : EqZero(items[i])

\* the bounds are left to the engine
BoundsDerived == ~Truthy(kwargs.extent)

\* C22 as amended: for every call without like that reaches the engine, the
\* grid spec has xres = yres = 0 iff res is None or empty, and otherwise
\* (xres, yres) = res; nrows = ncols = 0 iff out_shape is None or empty, and
\* otherwise (nrows, ncols) = out_shape; with_user_extent is true iff extent
\* is given (not None, not empty), in which case the bounds passed equal the
\* supplied extent unchanged.  When extent is not given the bounds are not
\* zeros: they are the total bounds of the data for a dataframe and
\* (inf, inf, inf, inf) for a list or array of geometries.
C22_GridSpecEncodesWhatWasGiven ==
    HandedToEngine
    => /\ AllZero(InfoRes) <=> ~Truthy(kwargs.res)
       /\ Truthy(kwargs.res) => InfoRes = kwargs.res.items
       /\ AllZero(InfoShape) <=> ~Truthy(kwargs.out_shape)
       /\ Truthy(kwargs.out_shape) => InfoShape = kwargs.out_shape.items
       /\ GridInfo.with_user_extent <=> Truthy(kwargs.extent)
       /\ GridInfo.with_user_extent => InfoBounds = kwargs.extent.items
       /\ BoundsDerived
             => InfoBounds = IF kwargs.data.t \in {"GeoDataFrame", "polars.DataFrame"}
                             THEN TotalBounds(kwargs.data).items
                             ELSE DefaultBounds.items
       /\ GridInfo.tap = kwargs.tap

\* C22 as stated: xres = yres = 0 iff res was not supplied, nrows = ncols = 0
\* iff out_shape was not supplied, the bounds are zeros whenever they are to
\* be derived, and with_user_extent is true iff extent was supplied, the
\* bounds then equal to the supplied extent.
C22_GridSpecZerosForUnspecified ==
    HandedToEngine
    => /\ AllZero(InfoRes) <=> kwargs.res = PyNone
       /\ AllZero(InfoShape) <=> kwargs.out_shape = PyNone
       /\ BoundsDerived => AllZero(InfoBounds)
       /\ GridInfo.with_user_extent <=> kwargs.extent # PyNone
       /\ GridInfo.with_user_extent => InfoBounds = kwargs.extent.items

\* rusterize(data, res=None, out_shape=(2, 3), extent=(0, 0, 4, 4)) reached
\* the engine: zeros for the resolution, the shape and the extent as given
C22_Witness ==
    /\ HandedToEngine
    /\ outcome.exc = "none"
    /\ kwargs.res = PyNone
    /\ kwargs.out_shape = PyTuple(<<PyInt(2), PyInt(3)>>)
    /\ Truthy(kwargs.extent)
    /\ AllZero(InfoRes)
    /\ GridInfo.nrows = PyInt(2) /\ GridInfo.ncols = PyInt(3)
    /\ GridInfo.with_user_extent

(***************************************************************************)
(* The order of the records (design section 8, property 3): one band is    *)
(* reduced from the same records in input order and in a permuted order.   *)
(***************************************************************************)
\* how many records the band is reduced from
MaxBatch == 3

\* the output types, contributions and emissions of the runs explored: a
\* saturating unsigned and signed type, a rounding and a wide float type;
\* contributions of both signs, one of them 2^24; a record that emits every
\* pixel once and one that emits the first pixel twice
OrderDTypes == {"uint8", "int8", "float32", "float64"}

OrderValues == {1, 50, -50, 16777216}

OrderEmissions ==
    {[p \in Pixels |-> 1], [p \in Pixels |-> IF p = PixelSeq[1] THEN 2 ELSE 0]}

OrderRecords == [v : OrderValues, e : OrderEmissions]

\* the records folded one after the other into the band b
RECURSIVE fold_all(_, _, _, _)
fold_all(fun, dt, b, recs) ==
    IF recs = <<>> THEN b
    ELSE fold_all(fun, dt, fold_record(fun, dt, b, Head(recs).e, Head(recs).v),
                  Tail(recs))

\* the dense output of one band for the records in the order given
reduce(fun, dt, bg, recs) ==
    dense_encode(fun, fold_all(fun, dt, [p \in Pixels |-> Unset], recs),
                 coerce_background(dt, bg))

\* the records in the order perm[1], perm[2], ...
Permuted(recs, perm) == [i \in 1..Len(recs) |-> recs[perm[i]]]

OrderStart ==
    /\ opc = "given"
    /\ batch \in [fun : Funs, dtype : OrderDTypes, background : {NaN},
                  records : [1..MaxBatch -> OrderRecords]]
    /\ inOrder = <<>>
    /\ reordered = <<>>

\* the records are reduced in input order
FoldInOrder ==
    /\ opc = "given"
    /\ opc' = "folded"
    /\ inOrder' = reduce(batch.fun, batch.dtype, batch.background, batch.records)
    /\ UNCHANGED <<batch, reordered>>
    /\ UNCHANGED <<callVars, kernelVars, dispatcherVars, resolverVars, scanVars>>

\* the same records are reduced in the order perm
FoldReordered(perm) ==
    /\ opc = "folded"
    /\ opc' = "compared"
    /\ reordered' =
          [perm |-> perm,
           output |-> reduce(batch.fun, batch.dtype, batch.background,
                             Permuted(batch.records, perm))]
    /\ UNCHANGED <<batch, inOrder>>
    /\ UNCHANGED <<callVars, kernelVars, dispatcherVars, resolverVars, scanVars>>

OrderInit ==
    CallIdle /\ KernelIdle /\ DispatcherIdle /\ ResolverIdle /\ OrderStart /\ ScanIdle

OrderNext ==
    \/ FoldInOrder
    \/ \E perm \in Permutations(1..MaxBatch) : FoldReordered(perm)

OrderSpec == OrderInit /\ [][OrderNext]_vars

Compared == opc = "compared"

SameOrder == \A i \in 1..MaxBatch : reordered.perm[i] = i

\* the greatest magnitude up to which every integer is a value of the type;
\* for float64 (2^53) more than any value a run explored here can produce
ExactLimit(dt) ==
    CASE dt = "float32" -> 16777216
      [] dt = "float64" -> 2147483647
      [] OTHER -> TypeMax(dt)

Abs(n) == IF n < 0 THEN -n ELSE n

\* the absolute values of the contributions a pixel receives, as cast, added
\* up over the first n records
RECURSIVE AbsTotal(_, _)
AbsTotal(p, n) ==
    IF n = 0 THEN 0
    ELSE AbsTotal(p, n - 1)
         + batch.records[n].e[p] * Abs(saturating_cast(batch.dtype, batch.records[n].v))

\* no sum of contributions of a pixel, in any order, leaves the values the
\* output type represents exactly
SumsExact == \A p \in Pixels : AbsTotal(p, MaxBatch) <= ExactLimit(batch.dtype)

Unsigned == batch.dtype \in {"uint8", "uint16", "uint32", "uint64"}

MaxRing == 4

\* the vertices of the rings explored, <<x, y>>
ScanVertices == (0..2) \X (0..2)

\* v comes before w or is w, by x and then by y
Precedes(v, w) == v[1] < w[1] \/ (v[1] = w[1] /\ v[2] <= w[2])

\* a ring is closed: its last vertex repeats the first.  Each ring is listed
\* from its least vertex, the other rotations having the same edges
Rings ==
    UNION {{Append(s, s[1]) :
               s \in {t \in [1..n -> ScanVertices] : \A i \in 1..n : Precedes(t[1], t[i])}}
           : n \in 3..MaxRing}

\* the further rings a record may carry besides its first ring
HoleRings ==
    {<<(<<0, 0>>), (<<1, 1>>), (<<0, 2>>), (<<0, 0>>)>>,
     <<(<<1, 0>>), (<<2, 2>>), (<<0, 1>>), (<<1, 0>>)>>}

\* the grids explored: three rows and three columns of 1 x 1 pixels from
\* xmin = 0, the pixel centres of the rows at y = ymax - 1/2, ...
ScanGrid(ymax) ==
    [xmin |-> Q(0, 1), ymax |-> ymax, xres |-> Q(1, 1), yres |-> Q(1, 1),
     ncols |-> 3, nrows |-> 3]

\* centres on the vertex rows (y = 2, 1, 0) and between them (5/2, 3/2, 1/2)
ScanGrids == {ScanGrid(Q(5, 2)), ScanGrid(Q(3, 1))}

\* the edges (x1,y1) -> (x2,y2) of a ring, in order
Edges(ring) == [i \in 1..(Len(ring) - 1) |-> <<ring[i], ring[i + 1]>>]

\* every edge of every ring of the record
RECURSIVE AllEdges(_)
AllEdges(rings) ==
    IF rings = <<>> THEN <<>> ELSE Edges(Head(rings)) \o AllEdges(Tail(rings))

\* y = ymax - (r + 0.5) * yres
centre_y(G, r) == QSub(G.ymax, QOver(QTimes(G.yres, 2 * r + 1), 2))

MinOf(a, b) == IF a <= b THEN a ELSE b

MaxOf(a, b) == IF a >= b THEN a ELSE b

\* the convention closed at both ends: min(y1,y2) <= y <= max(y1,y2)
crosses_closed(e, y) ==
    /\ e[1][2] # e[2][2]
    /\ QLe(Q(MinOf(e[1][2], e[2][2]), 1), y)
    /\ QLe(y, Q(MaxOf(e[1][2], e[2][2]), 1))

\* horizontal edges are skipped; half-open convention: a crossing iff
\* min(y1,y2) <= y < max(y1,y2)
crosses(e, y) ==
    /\ e[1][2] # e[2][2]
    /\ QLe(Q(MinOf(e[1][2], e[2][2]), 1), y)
    /\ QLt(y, Q(MaxOf(e[1][2], e[2][2]), 1))

\* x = x1 + (y - y1) * (x2 - x1) / (y2 - y1)
crossing_x(e, y) ==
    LET dx == e[2][1] - e[1][1]
        dy == e[2][2] - e[1][2]
        t == QSub(y, Q(e[1][2], 1))
        num == QTimes(t, dx)
    IN QAdd(Q(e[1][1], 1),
            IF dy > 0 THEN QOver(num, dy) ELSE QOver(QTimes(num, -1), -dy))

\* x put in its place in the ascending sequence s
RECURSIVE insert_sorted(_, _)
insert_sorted(x, s) ==
    IF s = <<>> THEN <<x>>
    ELSE IF QLe(x, Head(s)) THEN <<x>> \o s
    ELSE <<Head(s)>> \o insert_sorted(x, Tail(s))

\* the intersections of the line at y with the edges, sorted ascending in x
RECURSIVE intersect(_, _)
intersect(edges, y) ==
    IF edges = <<>> THEN <<>>
    ELSE IF crosses(Head(edges), y)
    THEN insert_sorted(crossing_x(Head(edges), y), intersect(Tail(edges), y))
    ELSE intersect(Tail(edges), y)

Clamp(c, lo, hi) == IF c < lo THEN lo ELSE IF c > hi THEN hi ELSE c

\* the intersections paired (x_2k, x_2k+1) and each pair converted to its
\* column span, clamped to [0, ncols - 1]; an intersection left without a
\* partner gives no span
RECURSIVE spans(_, _)
spans(G, xs) ==
    IF Len(xs) < 2 THEN <<>>
    ELSE LET c_left == QFloor(QDiv(QSub(xs[1], G.xmin), G.xres))
             c_right == QFloor(QDiv(QSub(xs[2], G.xmin), G.xres)) - 1
         IN <<(<<Clamp(c_left, 0, G.ncols - 1), Clamp(c_right, 0, G.ncols - 1)>>)>>
            \o spans(G, Tail(Tail(xs)))

ScanStart ==
    /\ spc = "scan"
    /\ polygon \in [rings : {<<s>> : s \in Rings}
                            \cup {<<s, h>> : s \in Rings, h \in HoleRings},
                    grid : ScanGrids]
    /\ row = 0
    /\ intersections = <<>>
    /\ filled = <<>>

\* the next scan row: intersect, sort, pair, emit the spans
ScanRow ==
    /\ spc = "scan"
    /\ row < polygon.grid.nrows
    /\ LET xs == intersect(AllEdges(polygon.rings), centre_y(polygon.grid, row))
       IN /\ intersections' = Append(intersections, xs)
          /\ filled' = Append(filled, spans(polygon.grid, xs))
    /\ row' = row + 1
    /\ UNCHANGED <<spc, polygon>>
    /\ UNCHANGED <<callVars, kernelVars, dispatcherVars, resolverVars, orderVars>>

\* the last row is done
ScanEnd ==
    /\ spc = "scan"
    /\ row = polygon.grid.nrows
    /\ spc' = "done"
    /\ UNCHANGED <<polygon, row, intersections, filled>>
    /\ UNCHANGED <<callVars, kernelVars, dispatcherVars, resolverVars, orderVars>>

ScanInit ==
    CallIdle /\ KernelIdle /\ DispatcherIdle /\ ResolverIdle /\ OrderIdle /\ ScanStart

ScanNext == ScanRow \/ ScanEnd

ScanSpec == ScanInit /\ [][ScanNext]_vars

\* the scan line of row r (counted from 0) passes exactly through vertex v
ThroughVertex(r, v) == centre_y(polygon.grid, r) = Q(v[2], 1)

RingVertices ==
    UNION {{polygon.rings[k][i] : i \in DOMAIN polygon.rings[k]} :
              k \in DOMAIN polygon.rings}

\* C23: in the polygon fill, for every closed ring and every set of closed
\* rings of one record, and for every scan row, the number of edge crossings
\* counted under the half-open rule min(y1,y2) <= y < max(y1,y2), horizontal
\* edges skipped, is even, so the sorted intersections pair up completely
\* (one column span per two intersections, none left over), including when
\* the scan line passes exactly through vertices.
C23_CrossingsPairUp ==
    spc \in {"scan", "done"}
    => \A r \in 1..Len(intersections) :
          /\ Len(intersections[r]) % 2 = 0
          /\ 2 * Len(filled[r]) = Len(intersections[r])
          /\ \A i \in 1..(Len(intersections[r]) - 1) :
                QLe(intersections[r][i], intersections[r][i + 1])

\* a record of two rings is scanned to the end; the line of the second row
\* passes exactly through a vertex where it crosses the boundary, and it
\* meets four crossings, paired into two spans
C23_Witness ==
    /\ spc = "done"
    /\ Len(polygon.rings) = 2
    /\ Len(intersections) = 3
    /\ Len(intersections[2]) = 4
    /\ Len(filled[2]) = 2
    /\ \E v \in RingVertices :
          /\ ThroughVertex(1, v)
          /\ \E i \in 1..4 : intersections[2][i] = Q(v[1], 1)

====
